---- MODULE Spec2Model ----
(***************************************************************************)
(* The plugin host of novi_plugin_host: load_plugins (discovery, the        *)
(* dependency table, toposort, the serial launch) and the plugin.restart    *)
(* handler, with the worker processes they start and stop.                  *)
(***************************************************************************)
EXTENDS Integers, Sequences, FiniteSets, TLC

\* ------------------------------------------------------------------ bounds
MaxReqs == 2        \* entries of one plugin's requirements list
MaxRestarts == 2    \* plugin.restart requests delivered to the host
MaxExits == 1       \* worker processes that end by themselves

\* ------------------------------------------------------------ input values
\* Plugin identifiers, in the order Python's sorted() puts them.
IdList == <<"a", "b", "c">>
Ids == {IdList[i] : i \in 1..Len(IdList)}
IdRank(id) == CHOOSE i \in 1..Len(IdList) : IdList[i] = id

\* Requirement strings a plugin.yaml may list: the recognised form for each
\* identifier, and two strings of another form.
ReqPool == <<"depends:a", "depends:b", "depends:c", "depends a", "python>=3">>

RECURSIVE PickReqs(_, _)
PickReqs(S, i) ==
    IF i > Len(ReqPool) THEN <<>>
    ELSE IF i \in S THEN <<ReqPool[i]>> \o PickReqs(S, i + 1)
    ELSE PickReqs(S, i + 1)

\* The requirements lists the model feeds in: every selection of at most
\* MaxReqs pool strings (the loop over a list only adds to sets or raises, so
\* lists are taken up to order and repetition).
ReqLists ==
    {PickReqs(S, 1) : S \in {T \in SUBSET (1..Len(ReqPool)) : Cardinality(T) <= MaxReqs}}

\* The lists among them that hold only strings of the recognised form.
DependsLists == {l \in ReqLists : \A i \in 1..Len(l) : l[i] \in {"depends:" \o id : id \in Ids}}

NoProcess == 0

VARIABLES
    disabled,   \* config.plugin_config: the identifiers with disabled = true
    pc,         \* the control thread: "discover", "toposort", "launch", "serve", "failed", "exited"
    error,      \* the exception that ended load_plugins, or "none"
    order,      \* insertion order of the plugins dict
    plugins,    \* identifier -> PluginState
    warned,     \* requirement strings passed to lg.warn('unknown requirement')
    topo,       \* the list toposort_flatten returned
    procs,      \* every mp.Process created, by creation index
    atexit,     \* the children registered with atexit.register(child.terminate)
    waiting,    \* thread -> the child whose registered event it waits on
    launched,   \* entries of topo the launch loop has finished
    calls,      \* the plugin.restart invocations, in arrival order
    discovered, \* identifier -> 0, 1, 2: no, one, several descriptors validated to it
    joined,     \* entries of plugins.values() whose join() has returned
    joining     \* the process the control thread is blocked in join() on

vars == <<disabled, pc, error, order, plugins, warned, topo, procs, atexit,
          waiting, launched, calls, discovered, joined, joining>>

MainThread == 0
Threads == 0..MaxRestarts

\* ------------------------------------------------------------- PluginState
PluginState(reqs) ==
    [requirements |-> reqs, dependencies |-> {}, depended_by |-> {}, process |-> NoProcess]

Known == DOMAIN plugins

\* ---------------------------------------------------------------- strings
startswith(s, p) == Len(s) >= Len(p) /\ SubSeq(s, 1, Len(p)) = p

\* req[len('depends:') :]
StripPrefix(req) == SubSeq(req, Len("depends:") + 1, Len(req))

Init ==
    /\ disabled \in SUBSET Ids
    /\ pc = "discover"
    /\ error = "none"
    /\ order = <<>>
    /\ plugins = <<>>
    /\ warned = {}
    /\ topo = <<>>
    /\ procs = <<>>
    /\ atexit = <<>>
    /\ waiting = [t \in Threads |-> NoProcess]
    /\ launched = 0
    /\ calls = <<>>
    /\ discovered = [id \in Ids |-> 0]
    /\ joined = 0
    /\ joining = NoProcess

\* ---------------------------------------------------- load_plugins: discovery
\* One iteration of `for desc in plugin_descs`.
LoadDesc(id, reqs, valid, provisioned) ==
    /\ pc = "discover"
    /\ IF ~valid
         THEN UNCHANGED <<pc, error, order, plugins, discovered>>
       ELSE /\ discovered' = [discovered EXCEPT ![id] = IF @ = 0 THEN 1 ELSE 2]
            /\ IF id \in Known
                  THEN /\ pc' = "failed"
                       /\ error' = "duplicate"
                       /\ UNCHANGED <<order, plugins>>
                ELSE IF id \in disabled
                  THEN UNCHANGED <<pc, error, order, plugins>>
                ELSE IF ~provisioned
                  THEN /\ pc' = "failed"
                       /\ error' = "provision"
                       /\ UNCHANGED <<order, plugins>>
                ELSE /\ plugins' = (id :> PluginState(reqs)) @@ plugins
                     /\ order' = Append(order, id)
                     /\ UNCHANGED <<pc, error>>
    /\ UNCHANGED <<disabled, joined, joining, warned, topo, procs, atexit, waiting,
                   launched, calls>>

\* ------------------------------------------- load_plugins: dependency table
\* The (identifier, requirement) pairs in the order the two nested loops
\* visit them: plugins.items() in insertion order, each requirements list in
\* list order.
RECURSIVE ReqPairs(_, _)
ReqPairs(tbl, ord) ==
    IF ord = <<>> THEN <<>>
    ELSE [i \in 1..Len(tbl[Head(ord)].requirements) |->
             <<Head(ord), tbl[Head(ord)].requirements[i]>>]
         \o ReqPairs(tbl, Tail(ord))

\* `if not req.startswith('depends:'): lg.warn(...)`: the strings logged.
WarnUnknown(wrn, req) ==
    IF startswith(req, "depends:") THEN wrn ELSE wrn \cup {req}

\* `if dep not in plugins: raise ValueError(f'missing dependency {dep}')`
MissingDependency(tbl, dep) == dep \notin DOMAIN tbl

\* plugins[dep].depended_by.add(identifier); state.dependencies.add(dep)
AddEdge(tbl, identifier, dep) ==
    LET t1 == [tbl EXCEPT ![dep].depended_by = @ \cup {identifier}]
    IN  [t1 EXCEPT ![identifier].dependencies = @ \cup {dep}]

\* The body of the inner loop, run over the pairs until one raises.
RECURSIVE BuildReqs(_, _, _)
BuildReqs(tbl, wrn, pairs) ==
    IF pairs = <<>> THEN [plugins |-> tbl, warned |-> wrn, raised |-> FALSE]
    ELSE LET identifier == Head(pairs)[1]
             req == Head(pairs)[2]
             w == WarnUnknown(wrn, req)
             dep == StripPrefix(req)
         IN  IF MissingDependency(tbl, dep)
               THEN [plugins |-> tbl, warned |-> w, raised |-> TRUE]
               ELSE BuildReqs(AddEdge(tbl, identifier, dep), w, Tail(pairs))

\* A missing dependency that is logged and passed over.
MissingDependencyLogged(raised) == "none"

\* The ValueError('missing dependency ...') leaves load_plugins.
MissingDependencyRaised(raised) == IF raised THEN "missing" ELSE "none"

\* The discovery iterator is exhausted and the requirement loops run.
BuildDependencies ==
    /\ pc = "discover"
    /\ LET r == BuildReqs(plugins, warned, ReqPairs(plugins, order))
       IN  /\ plugins' = r.plugins
           /\ warned' = r.warned
           /\ error' = MissingDependencyRaised(r.raised)
           /\ pc' = IF error' = "none" THEN "toposort" ELSE "failed"
    /\ UNCHANGED <<disabled, discovered, joined, joining,
                   order, topo, procs, atexit, waiting, launched, calls>>

\* ------------------------------------------------------- toposort_flatten
\* sorted(d) for a set of identifiers.
RECURSIVE Sorted(_)
Sorted(S) ==
    IF S = {} THEN <<>>
    ELSE LET m == CHOOSE x \in S : \A y \in S : IdRank(x) <= IdRank(y)
         IN  <<m>> \o Sorted(S \ {m})

\* toposort's first step: self-dependencies are discarded.
DiscardSelf(data) == [item \in DOMAIN data |-> data[item] \ {item}]

\* Every remaining item taken as ordered, whatever it depends on.
OrderedAll(data) == DOMAIN data

\* `ordered = set(item for item, dep in data.items() if len(dep) == 0)`
Ordered(data) == {item \in DOMAIN data : data[item] = {}}

\* The layers, each sorted, appended until no item is free of dependencies;
\* `rest` is what toposort is left with.
RECURSIVE Layers(_, _)
Layers(data, result) ==
    IF Ordered(data) = {} THEN [result |-> result, rest |-> data]
    ELSE Layers([item \in DOMAIN data \ Ordered(data) |-> data[item] \ Ordered(data)],
                result \o Sorted(Ordered(data)))

\* The leftover of a cycle passed over.
CircularDependencyIgnored(rest) == FALSE

\* `if len(data) != 0: raise CircularDependencyError(data)`
CircularDependency(rest) == DOMAIN rest # {}

toposort_flatten(dependencies) == Layers(DiscardSelf(dependencies), <<>>)

\* dependencies[identifier] = state.dependencies
DependenciesOf(tbl) == [identifier \in DOMAIN tbl |-> tbl[identifier].dependencies]

\* `topo = toposort_flatten(dependencies)`. The requirements lists are not
\* read again once the table is built; the model drops them here.
Linearize ==
    /\ pc = "toposort"
    /\ LET r == toposort_flatten(DependenciesOf(plugins))
       IN  IF CircularDependency(r.rest)
             THEN /\ pc' = "failed"
                  /\ error' = "cycle"
                  /\ UNCHANGED <<topo, plugins>>
             ELSE /\ pc' = "launch"
                  /\ topo' = r.result
                  /\ plugins' = [id \in Known |-> [plugins[id] EXCEPT !.requirements = <<>>]]
                  /\ UNCHANGED error
    /\ UNCHANGED <<disabled, discovered, joined, joining,
                   order, warned, procs, atexit, waiting, launched, calls>>

\* ------------------------------------------------------- worker processes
\* A process is "running" from child.start() until it exits by itself
\* ("exited") or after terminate() ("terminated"); registered is the
\* mp.Event that entry_main sets. Processes are numbered in the order of
\* their child.start().
Running(p) == procs[p].status = "running"
Ready(p) == Running(p) /\ procs[p].registered

NewChild(identifier) ==
    [identifier |-> identifier, status |-> "running", registered |-> FALSE]

\* _async_entry_main: main.run() has returned and registered.set() runs.
ChildRegister(p) ==
    /\ Running(p)
    /\ ~procs[p].registered
    /\ procs' = [procs EXCEPT ![p].registered = TRUE]
    /\ UNCHANGED <<disabled, discovered, joined, joining,
                   pc, error, order, plugins, warned, topo, atexit,
                   waiting, launched, calls>>

\* The child ends by itself: its entry raises, or its serving loop returns.
ChildExit(p) ==
    /\ Running(p)
    /\ Cardinality({q \in 1..Len(procs) : procs[q].status = "exited"}) < MaxExits
    /\ procs' = [procs EXCEPT ![p].status = "exited"]
    /\ UNCHANGED <<disabled, discovered, joined, joining,
                   pc, error, order, plugins, warned, topo, atexit,
                   waiting, launched, calls>>

\* process.terminate(); process.join()
Terminated(ps, p) ==
    IF ps[p].status = "running" THEN [ps EXCEPT ![p].status = "terminated"] ELSE ps

\* A wait that returns at once.
EventIgnored(p) == TRUE

\* A wait that also returns when the child has ended.
EventSetOrEnded(p) == procs[p].registered \/ ~Running(p)

\* `registered.wait()` returns once the event is set.
EventSet(p) == procs[p].registered

\* PluginState.spawn up to child.start(): thread t starts a child for
\* identifier and blocks on its event.
SpawnStart(ps, t, identifier) ==
    /\ procs' = Append(ps, NewChild(identifier))
    /\ waiting' = [waiting EXCEPT ![t] = Len(ps) + 1]

\* PluginState.spawn after registered.wait(): the child is registered with
\* atexit and becomes the state's process.
SpawnFinish(t) ==
    /\ atexit' = Append(atexit, waiting[t])
    /\ plugins' = [plugins EXCEPT ![procs[waiting[t]].identifier].process = waiting[t]]
    /\ waiting' = [waiting EXCEPT ![t] = NoProcess]

\* ------------------------------------------------ load_plugins: the launch
\* `for identifier in topo: plugins[identifier].spawn()`
\* A launch loop that stops one plugin short.
LaunchOrderShort == SubSeq(topo, 1, Len(topo) - 1)

LaunchOrder == topo

LaunchSpawn ==
    /\ pc = "launch"
    /\ waiting[MainThread] = NoProcess
    /\ launched < Len(LaunchOrder)
    /\ SpawnStart(procs, MainThread, LaunchOrder[launched + 1])
    /\ UNCHANGED <<disabled, discovered, joined, joining,
                   pc, error, order, plugins, warned, topo, atexit,
                   launched, calls>>

LaunchSpawned ==
    /\ pc = "launch"
    /\ waiting[MainThread] # NoProcess
    /\ EventSet(waiting[MainThread])
    /\ SpawnFinish(MainThread)
    /\ launched' = launched + 1
    /\ UNCHANGED <<disabled, discovered, joined, joining,
                   pc, error, order, warned, topo, procs, calls>>

\* `return plugins, topo`, bound to the module globals of __main__.
LaunchReturn ==
    /\ pc = "launch"
    /\ waiting[MainThread] = NoProcess
    /\ launched = Len(LaunchOrder)
    /\ pc' = "serve"
    /\ UNCHANGED <<disabled, discovered, joined, joining,
                   error, order, plugins, warned, topo, procs, atexit,
                   waiting, launched, calls>>

\* --------------------------------------------------------- plugin.restart
\* The module globals `plugins` and `topo` of __main__, once load_plugins has
\* returned and they are bound to its result.
MainPlugins == plugins
MainTopo == topo

\* What `if to_restart.add(dep):` tests: set.add returns None.
AddResult(to_restart, dep) == FALSE

\* `for dep in plg.depended_by:` with its body.
RECURSIVE ForDependedBy(_, _, _)
ForDependedBy(deps, to_restart, q) ==
    IF deps = {} THEN [to_restart |-> to_restart, q |-> q]
    ELSE LET dep == Head(Sorted(deps))
         IN  ForDependedBy(deps \ {dep}, to_restart \cup {dep},
                           IF AddResult(to_restart, dep) THEN Append(q, dep) ELSE q)

\* `while i < len(q):` with its body; i counts the entries of q already taken.
RECURSIVE WhileQueue(_, _, _, _)
WhileQueue(tbl, to_restart, q, i) ==
    IF i >= Len(q) THEN to_restart
    ELSE LET r == ForDependedBy(tbl[q[i + 1]].depended_by, to_restart, q)
         IN  WhileQueue(tbl, r.to_restart, r.q, i + 1)

\* to_restart as restart_plugin computes it for a known plugin.
ToRestart(tbl, plugin) == WhileQueue(tbl, {plugin}, <<plugin>>, 0)

Reversed(seq) == [k \in 1..Len(seq) |-> seq[Len(seq) + 1 - k]]

\* The walk taken over topo as it is.
WalkOrderForward == MainTopo

\* `topo[::-1]`
WalkOrder == Reversed(MainTopo)

\* The position of the next entry of the walk that is in to_restart, 0 if none.
NextIndex(c) ==
    LET later == {j \in (c.i + 1)..Len(WalkOrder) : WalkOrder[j] \in c.to_restart}
    IN  IF later = {} THEN 0 ELSE CHOOSE j \in later : \A l \in later : j <= l

\* The permissions of the session that restart_plugin consults: the module
\* global `session`, opened under the identity of the master key, whoever
\* sent the request.
MasterPermitted == TRUE

\* `session.check_permission('plugin.restart')` for a request whose caller
\* holds (caller = TRUE) or lacks the permission.
check_permission(caller) == MasterPermitted

None == "None"

\* A lookup that falls back to some plugin of the table.
getDefault(tbl, plugin) ==
    IF plugin \in DOMAIN tbl THEN plugin
    ELSE IF DOMAIN tbl = {} THEN None
    ELSE CHOOSE x \in DOMAIN tbl : TRUE

\* `plugins.get(plugin)`: the state, named by its identifier, or None.
get(tbl, plugin) == IF plugin \in DOMAIN tbl THEN plugin ELSE None

\* No restart_plugin invocation is between its first line and its return.
Idle == \A k \in 1..Len(calls) : calls[k].pc \in {"done", "error", "denied"}

\* A plugin.restart request arrives: the permission check, the lookup and the
\* computation of to_restart.
RestartCall(plugin, caller) ==
    /\ pc = "serve"
    /\ Len(calls) < MaxRestarts
    /\ LET c == [plugin |-> plugin, caller |-> caller, pc |-> "walk",
                 to_restart |-> {}, i |-> 0, restarted |-> <<>>, log |-> <<>>]
           state == get(MainPlugins, plugin)
       IN  calls' = Append(calls,
               IF ~check_permission(caller) THEN [c EXCEPT !.pc = "denied"]
               ELSE IF state = None THEN [c EXCEPT !.pc = "error"]
               ELSE [c EXCEPT !.to_restart = ToRestart(MainPlugins, state)])
    /\ UNCHANGED <<disabled, discovered, joined, joining,
                   pc, error, order, plugins, warned, topo, procs,
                   atexit, waiting, launched>>

\* terminate() that fails on a process that is no longer running.
TerminateRaisesOnDead(handle) ==
    IF handle = NoProcess THEN TRUE ELSE ~Running(handle)

\* `plg.process.terminate()` raises AttributeError when process is None; on a
\* Process object, running or not, it returns.
TerminateRaises(handle) == handle = NoProcess

\* One iteration of `for ident in topo[::-1]` that finds ident in to_restart,
\* up to the wait inside spawn().
RestartNext(k) ==
    /\ pc = "serve"
    /\ k \in 1..Len(calls)
    /\ calls[k].pc = "walk"
    /\ NextIndex(calls[k]) # 0
    /\ LET j == NextIndex(calls[k])
           ident == WalkOrder[j]
       IN  IF TerminateRaises(MainPlugins[ident].process)
             THEN /\ calls' = [calls EXCEPT ![k] =
                         [@ EXCEPT !.pc = "error", !.i = j,
                                   !.restarted = Append(@, ident)]]
                  /\ UNCHANGED <<procs, waiting>>
             ELSE /\ calls' = [calls EXCEPT ![k] =
                         [@ EXCEPT !.pc = "wait", !.i = j,
                                   !.restarted = Append(@, ident),
                                   !.log = Append(@, <<"terminate", ident>>)]]
                  /\ SpawnStart(Terminated(procs, MainPlugins[ident].process), k, ident)
    /\ UNCHANGED <<disabled, discovered, joined, joining,
                   pc, error, order, plugins, warned, topo, atexit,
                   launched>>

\* spawn() returns in the handler.
RestartSpawned(k) ==
    /\ pc = "serve"
    /\ k \in 1..Len(calls)
    /\ calls[k].pc = "wait"
    /\ EventSet(waiting[k])
    /\ calls' = [calls EXCEPT ![k] =
           [@ EXCEPT !.pc = "walk",
                     !.log = Append(@, <<"spawn", procs[waiting[k]].identifier>>)]]
    /\ SpawnFinish(k)
    /\ UNCHANGED <<disabled, discovered, joined, joining,
                   pc, error, order, warned, topo, procs, launched>>

\* `return {'restarted': restarted}`
RestartReturn(k) ==
    /\ pc = "serve"
    /\ k \in 1..Len(calls)
    /\ calls[k].pc = "walk"
    /\ NextIndex(calls[k]) = 0
    /\ calls' = [calls EXCEPT ![k].pc = "done"]
    /\ UNCHANGED <<disabled, discovered, joined, joining,
                   pc, error, order, plugins, warned, topo, procs,
                   atexit, waiting, launched>>

\* ------------------------------------------------------------ plugin.list
\* `state.process.is_alive()`
is_alive(handle) == Running(handle)

\* What list_plugins does for a caller that passes its permission check: it
\* returns one entry per key of the table, or raises the AttributeError of a
\* PluginState whose process is None.
list_plugins ==
    IF \E identifier \in DOMAIN MainPlugins : MainPlugins[identifier].process = NoProcess
      THEN [raised |-> TRUE, result |-> <<>>]
      ELSE [raised |-> FALSE,
            result |-> [identifier \in DOMAIN MainPlugins |->
                           [alive |-> is_alive(MainPlugins[identifier].process)]]]

\* ------------------------------------------------- __main__: the join loop
\* `for plugin in plugins.values(): plugin.process.join()`: the control thread
\* takes the next PluginState, reads its process and blocks in join().
JoinStart ==
    /\ pc = "serve"
    /\ joining = NoProcess
    /\ joined < Len(order)
    /\ joining' = MainPlugins[order[joined + 1]].process
    /\ UNCHANGED <<disabled, discovered, joined, pc, error, order, plugins, warned,
                   topo, procs, atexit, waiting, launched, calls>>

\* join() returns: the process has exited or was terminated.
JoinReturn ==
    /\ pc = "serve"
    /\ joining # NoProcess
    /\ ~Running(joining)
    /\ joined' = joined + 1
    /\ joining' = NoProcess
    /\ UNCHANGED <<disabled, discovered, pc, error, order, plugins, warned, topo,
                   procs, atexit, waiting, launched, calls>>

\* No child gets a signal when the interpreter exits.
AtExitNone(ps, registered) == ps

\* The atexit callbacks: child.terminate() for every registered child.
AtExit(ps, registered) ==
    [p \in 1..Len(ps) |->
        IF \E i \in 1..Len(registered) : registered[i] = p
          THEN Terminated(ps, p)[p] ELSE ps[p]]

\* The loop is exhausted: the with blocks close, the interpreter exits and
\* runs the atexit callbacks. The handler threads end with the process.
MainExit ==
    /\ pc = "serve"
    /\ joining = NoProcess
    /\ joined = Len(order)
    /\ pc' = "exited"
    /\ procs' = AtExit(procs, atexit)
    /\ UNCHANGED <<disabled, discovered, joined, joining, error, order, plugins,
                   warned, topo, atexit, waiting, launched, calls>>

\* The control thread once load_plugins has returned.
MainSteps ==
    \/ JoinStart
    \/ JoinReturn
    \/ MainExit

\* ----------------------------------------------------------- specification
\* The descriptor of id does not come before one already accepted, in the
\* order of the identifiers.
InOrder(id) == IF order = <<>> THEN TRUE ELSE IdRank(order[Len(order)]) <= IdRank(id)

\* load_plugins and the children it starts, its descriptors carrying the
\* requirements lists of `lists`, discovered in any order or (sorted) in the
\* order of their identifiers. The requirements of a descriptor are read only
\* when it is accepted; every other descriptor is taken with an empty list.
LoadSteps(lists, sorted) ==
    \/ \E id \in Ids \ (Known \cup disabled), reqs \in lists :
          /\ sorted => InOrder(id)
          /\ LoadDesc(id, reqs, TRUE, TRUE)
    \/ \E id \in Ids, valid \in BOOLEAN, provisioned \in BOOLEAN :
          /\ id \in Known \cup disabled \/ ~(valid /\ provisioned)
          /\ sorted => InOrder(id)
          /\ LoadDesc(id, <<>>, valid, provisioned)
    \/ BuildDependencies
    \/ Linearize
    \/ LaunchSpawn
    \/ LaunchSpawned
    \/ LaunchReturn
    \/ \E p \in 1..Len(procs) : ChildRegister(p)

\* The steps of the restart_plugin invocations in flight.
RestartSteps ==
    \/ \E k \in 1..MaxRestarts : RestartNext(k)
    \/ \E k \in 1..MaxRestarts : RestartSpawned(k)
    \/ \E k \in 1..MaxRestarts : RestartReturn(k)

\* load_plugins alone, over every requirements list.
NextLoad ==
    \/ LoadSteps(ReqLists, FALSE)
    \/ \E p \in 1..Len(procs) : ChildExit(p)

SpecLoad == Init /\ [][NextLoad]_vars

\* The host over the requirements lists of the recognised form, its callers
\* holding the plugin.restart permission and sending one request at a time,
\* every child running until it is terminated.
Next ==
    \/ LoadSteps(DependsLists, TRUE)
    \/ \E plugin \in Ids : Idle /\ RestartCall(plugin, TRUE)
    \/ RestartSteps
    \/ MainSteps

\* No plugin is disabled in config.yaml.
InitEnabled == Init /\ disabled = {}

Spec == InitEnabled /\ [][Next]_vars

\* The requirements lists of plugins that depend on nothing or on plugin a.
RootLists == {l \in DependsLists : l \in {<<>>, <<"depends:a">>}}

\* The same host over RootLists, with plugin.restart requests arriving at any
\* time.
NextOverlap ==
    \/ LoadSteps(RootLists, TRUE)
    \/ \E plugin \in Ids : RestartCall(plugin, TRUE)
    \/ RestartSteps
    \/ MainSteps

SpecOverlap == InitEnabled /\ [][NextOverlap]_vars

\* The host over RootLists, one request at a time, from callers that hold the
\* plugin.restart permission and callers that lack it.
NextCallers ==
    \/ LoadSteps(RootLists, TRUE)
    \/ \E plugin \in Ids, caller \in BOOLEAN : Idle /\ RestartCall(plugin, caller)
    \/ RestartSteps
    \/ MainSteps

SpecCallers == InitEnabled /\ [][NextCallers]_vars

\* The host over RootLists, one request at a time, with children that may
\* end by themselves.
NextExit ==
    \/ LoadSteps(RootLists, TRUE)
    \/ \E plugin \in Ids : Idle /\ RestartCall(plugin, TRUE)
    \/ RestartSteps
    \/ MainSteps
    \/ \E p \in 1..Len(procs) : ChildExit(p)

SpecExit == InitEnabled /\ [][NextExit]_vars

\* ================================================================== claims
\* The position of x in seq.
Index(seq, x) == CHOOSE i \in 1..Len(seq) : seq[i] = x

ToSet(seq) == {seq[i] : i \in 1..Len(seq)}

\* The plugins that P depends on: a dependency reference names another
\* plugin, and toposort passes over a plugin's reference to itself.
DependenciesOn(P) == plugins[P].dependencies \ {P}

\* A process has been started for the plugin.
Started(id) == \E p \in 1..Len(procs) : procs[p].identifier = id

\* spawn() of the plugin has returned: its state holds a process.
SpawnReturned(id) == plugins[id].process # NoProcess

\* The requirement loops have run to their end or to their raise.
BuildRan == pc \in {"toposort", "launch", "serve"} \/ error \in {"missing", "cycle"}

\* toposort_flatten has returned or raised.
LinearizeRan == pc \in {"launch", "serve"} \/ error = "cycle"

\* The identifiers a plugin names in requirements of the form depends:<id>.
DeclaredDependencies(P) ==
    {id \in Ids : \E i \in 1..Len(plugins[P].requirements) :
                     plugins[P].requirements[i] = "depends:" \o id}

\* An accepted plugin names, in the recognised form, a plugin that was not
\* accepted.
DeclaresMissing == \E P \in Known : DeclaredDependencies(P) \ Known # {}

\* Every nonempty set of plugins has a member with no dependency in the set.
Acyclic ==
    \A S \in SUBSET Known :
        S # {} => \E x \in S : plugins[x].dependencies \cap S = {}

\* Some set of two or more plugins in which every member depends on another
\* member: the plugins of a cycle of length 2 or more, or plugins that lead
\* into one.
HasCycle ==
    \E S \in SUBSET Known :
        /\ Cardinality(S) >= 2
        /\ \A x \in S : (plugins[x].dependencies \ {x}) \cap S # {}

\* C1: during the launch, a plugin's process is started only once spawn() of
\* each plugin it depends on has returned, and spawn() of a plugin returns
\* only once that plugin's child has set its event.
C1_LaunchWaitsForDependencies ==
    /\ \A P \in Known : \A D \in DependenciesOn(P) : Started(P) => SpawnReturned(D)
    /\ \A D \in Known : SpawnReturned(D) => procs[plugins[D].process].registered

\* C1 witness: a plugin with a dependency has just been started by the
\* launch loop.
C1_Witness ==
    /\ pc = "launch"
    /\ waiting[MainThread] # NoProcess
    /\ DependenciesOn(procs[waiting[MainThread]].identifier) # {}

\* C2: for an acyclic table, topo holds every accepted identifier exactly once,
\* each plugin after every plugin it depends on.
C2_LaunchOrderIsTopological ==
    (LinearizeRan /\ Acyclic) =>
        /\ pc # "failed"
        /\ Len(topo) = Cardinality(Known)
        /\ ToSet(topo) = Known
        /\ \A P \in Known : \A D \in plugins[P].dependencies :
              Index(topo, D) < Index(topo, P)

\* C2 witness: three plugins are linearized, one of them depending on the two
\* others.
C2_Witness ==
    /\ pc = "launch"
    /\ Acyclic
    /\ Cardinality(Known) = 3
    /\ \E P \in Known : Cardinality(plugins[P].dependencies) = 2

\* C7: when an accepted plugin names a dependency that is not accepted,
\* load_plugins fails with the missing-dependency error and no process was
\* started.
C7_MissingDependencyFails ==
    (BuildRan /\ DeclaresMissing) =>
        /\ pc = "failed"
        /\ error = "missing"
        /\ procs = <<>>

\* C7 witness: load_plugins has failed on a dependency that names a plugin
\* which is disabled in the configuration.
C7_Witness ==
    /\ pc = "failed"
    /\ error = "missing"
    /\ \E P \in Known : DeclaredDependencies(P) \cap disabled # {}

\* C8: when the table holds a cycle of length 2 or more, toposort_flatten fails
\* with the cycle error and no process was started, also for the plugins that
\* are not on the cycle.
C8_CycleFails ==
    (LinearizeRan /\ HasCycle) =>
        /\ pc = "failed"
        /\ error = "cycle"
        /\ procs = <<>>

\* C8 witness: the linearization has failed on a table of three plugins, one
\* of them with no dependency and no dependent.
C8_Witness ==
    /\ error = "cycle"
    /\ HasCycle
    /\ Cardinality(Known) = 3
    /\ \E P \in Known : plugins[P].dependencies = {} /\ plugins[P].depended_by = {}

\* C9: a requirement that does not start with depends: adds no edge and raises
\* no error: the dependencies of every plugin are among those it names in the
\* recognised form, and load_plugins does not fail on a missing dependency
\* when every dependency so named is accepted.
C9_UnknownRequirementIgnored ==
    (BuildRan /\ pc \in {"toposort", "failed"}) =>
        /\ \A P \in Known : plugins[P].dependencies \subseteq DeclaredDependencies(P)
        /\ ~DeclaresMissing => error # "missing"

\* The plugins of S and every plugin that depends on one of them, directly or
\* through other plugins.
RECURSIVE WithDependents(_)
WithDependents(S) ==
    LET more == S \cup {Y \in Known : plugins[Y].dependencies \cap S # {}}
    IN  IF more = S THEN S ELSE WithDependents(more)

\* The plugin has a running process; it has one whose event is set.
PluginRunning(id) == \E p \in 1..Len(procs) : procs[p].identifier = id /\ Running(p)
PluginReady(id) == \E p \in 1..Len(procs) : procs[p].identifier = id /\ Ready(p)

\* Process y was started after process d had set its event: the threads of
\* Spec start a child only when every earlier spawn() has returned, so this is
\* the order in which the two were started.
StartedAfterReady(y, d) == procs[d].registered /\ d < y

\* The restart_plugin invocations that have returned their list.
Returned == {k \in 1..Len(calls) : calls[k].pc = "done"}

\* C3: restart(X) restarts X and every plugin that depends on X directly or
\* through other plugins, and nothing else.
C3_RestartsTransitiveDependents ==
    \A k \in Returned :
        ToSet(calls[k].restarted) = WithDependents({calls[k].plugin})

\* C4: the returned list is the sequence of plugins on which terminate then
\* spawn were performed, in that order, and the order is the reverse of the
\* launch order: a plugin is restarted before the plugins it depends on.
C4_RestartedInReverseLaunchOrder ==
    \A k \in Returned :
        LET r == calls[k].restarted
            l == calls[k].log
        IN  /\ Len(l) = 2 * Len(r)
            /\ \A i \in 1..Len(r) :
                  l[2 * i - 1] = <<"terminate", r[i]>> /\ l[2 * i] = <<"spawn", r[i]>>
            /\ \A i, j \in 1..Len(r) :
                  i < j => Index(topo, r[i]) > Index(topo, r[j])
            /\ \A i, j \in 1..Len(r) :
                  r[j] \in DependenciesOn(r[i]) => i < j

\* C4 witness: a call has returned a list that holds a plugin and one it
\* depends on.
C4_Witness ==
    \E k \in Returned :
        \E Y, X \in ToSet(calls[k].restarted) : X \in DependenciesOn(Y)

\* C5: once load_plugins has returned, no plugin has a running process while a
\* plugin it depends on has no process that is running with its event set.
C5_NoPluginRunsOnDeadDependency ==
    pc = "serve" =>
        \A Y \in Known : \A D \in DependenciesOn(Y) :
            PluginRunning(Y) => PluginReady(D)

\* C6: when a restart call has returned, every running plugin that depends on a
\* plugin the call restarted holds a process started after the process that
\* plugin now holds had set its event.
C6_DependentsRestartedAfterDependency ==
    \A k \in Returned :
        k = Len(calls) =>
            \A D \in ToSet(calls[k].restarted) : \A Y \in Known :
                (D \in DependenciesOn(Y) /\ Running(plugins[Y].process)) =>
                    StartedAfterReady(plugins[Y].process, plugins[D].process)

\* The plugins whose process a call has terminated and whose new child has not
\* yet set its event.
InTransition ==
    {procs[waiting[k]].identifier :
        k \in {j \in 1..Len(calls) : calls[j].pc = "wait" /\ ~procs[waiting[j]].registered}}

\* The calls that have terminated a process and wait inside spawn().
MidRestart == {k \in 1..Len(calls) : calls[k].pc = "wait"}

\* C10: at most one plugin is in transition at any moment, and no two restart
\* calls are between a terminate and the return of the spawn that follows it.
C10_OneTransitionAtATime ==
    /\ Cardinality(InTransition) <= 1
    /\ Cardinality(MidRestart) <= 1

\* The restart_plugin invocations whose argument is not a key of the table.
UnknownCalls == {k \in 1..Len(calls) : calls[k].plugin \notin DOMAIN MainPlugins}

\* C11: restart(X) for an X that is not a key of the plugin table ends in the
\* unknown-plugin error with nothing restarted, and the step that handles it
\* changes no process, no PluginState and no atexit registration.
C11_UnknownPluginFails ==
    /\ [](\A k \in UnknownCalls :
            calls[k].pc = "error" /\ calls[k].restarted = <<>> /\ calls[k].log = <<>>)
    /\ [][(Len(calls') > Len(calls)
             /\ calls'[Len(calls')].plugin \notin DOMAIN MainPlugins)
            => (procs' = procs /\ plugins' = plugins /\ atexit' = atexit
                /\ waiting' = waiting)]_vars

\* C11 witness: a request for an unknown plugin has failed on a host that
\* runs other plugins.
C11_Witness ==
    /\ pc = "serve"
    /\ Known # {}
    /\ \E k \in UnknownCalls : calls[k].pc = "error"

\* The number of running worker processes.
LiveCount(ps) == Cardinality({p \in 1..Len(ps) : ps[p].status = "running"})

\* The plugin a call has just appended to its restarted list.
LastRestarted(c) == c.restarted[Len(c.restarted)]

\* C12: once load_plugins has returned every PluginState holds a process, and
\* the terminate step of a restart on a plugin whose process is no longer
\* running raises nothing and changes no existing process: the call goes on to
\* spawn, which adds the one new child.
C12_TerminateDeadIsNoOp ==
    /\ [](pc = "serve" => \A id \in Known : plugins[id].process # NoProcess)
    /\ [][\A k \in 1..Len(calls) :
            (/\ calls[k].pc = "walk"
             /\ Len(calls'[k].restarted) > Len(calls[k].restarted)
             /\ ~Running(plugins[LastRestarted(calls'[k])].process))
            => (/\ calls'[k].pc = "wait"
                /\ SubSeq(procs', 1, Len(procs)) = procs
                /\ LiveCount(procs') = LiveCount(procs) + 1)]_vars

\* C12 witness: a call has passed the terminate step on a plugin whose process
\* had ended by itself.
C12_Witness ==
    \E k \in 1..Len(calls) :
        /\ calls[k].pc = "wait"
        /\ procs[plugins[LastRestarted(calls[k])].process].status = "exited"

\* Two descriptors, or more, have validated to one identifier.
DuplicateDiscovered == \E id \in Ids : discovered[id] >= 2

\* A launch that ran to its end although an identifier was discovered twice.
DuplicateLaunched == DuplicateDiscovered /\ pc = "serve" /\ procs # <<>>

\* C13: when two discovered descriptors validate to the same identifier,
\* load_plugins has failed with the duplicate-identifier error and no process
\* was started.
C13_DuplicateFails ==
    DuplicateDiscovered =>
        /\ pc = "failed"
        /\ error = "duplicate"
        /\ procs = <<>>

\* C14: a failure of plugin_user or login_as for one plugin does not end
\* load_plugins: the plugins accepted so far are not left without a launch.
C14_ProvisionFailureIsLocal ==
    (error = "provision" /\ Known # {}) => pc # "failed"

\* C15: a plugin.restart request from a caller that lacks the plugin.restart
\* permission terminates and spawns nothing and returns no result.
C15_RestartNeedsPermission ==
    \A k \in 1..Len(calls) :
        ~calls[k].caller => (calls[k].log = <<>> /\ calls[k].pc # "done")

\* C16: once load_plugins has returned and before any restart request,
\* plugin.list returns one entry for every accepted plugin, each with alive
\* true (the children of Spec run until they are terminated).
C16_ListShowsAllAlive ==
    (pc = "serve" /\ calls = <<>>) =>
        /\ ~list_plugins.raised
        /\ DOMAIN list_plugins.result = ToSet(order)
        /\ \A id \in DOMAIN list_plugins.result : list_plugins.result[id].alive

\* C16 witness: the list is taken on a host that has launched three plugins.
C16_Witness ==
    /\ pc = "serve"
    /\ calls = <<>>
    /\ Cardinality(DOMAIN list_plugins.result) = 3

\* Thread t is inside spawn() and its child has not set the event; the child
\* has moreover ended.
Blocked(t) == waiting[t] # NoProcess /\ ~procs[waiting[t]].registered
Stuck(t) == Blocked(t) /\ ~Running(waiting[t])

\* How far thread t has come: the launch loop of the control thread, the walk
\* of a restart_plugin invocation.
Progress(t) ==
    IF t = MainThread THEN <<pc, launched>>
    ELSE IF t <= Len(calls) THEN <<calls[t]>>
    ELSE <<>>

\* C17: a thread inside spawn() does not move on while the child has not set
\* its event, and when the child has ended without setting it the thread stays
\* there for good: the launch loop or the restart walk spawns nothing further
\* and does not complete.
C17_SpawnBlocksWithoutEvent ==
    /\ [][\A t \in Threads :
            Blocked(t) => (waiting'[t] = waiting[t] /\ Progress(t)' = Progress(t))]_vars
    /\ [][\A t \in Threads : Stuck(t) => Stuck(t)']_vars

\* C17 witness: a restart walk with a further plugin to restart waits on a
\* child that ended before it set its event.
C17_Witness ==
    \E k \in 1..Len(calls) : Stuck(k) /\ NextIndex(calls[k]) # 0

\* The same in the launch loop, with a plugin of topo still to spawn.
LaunchStuck == pc = "launch" /\ Stuck(MainThread) /\ launched + 1 < Len(topo)

\* spawn() has returned for process p: no thread waits on its event.
SpawnHasReturned(p) == \A t \in Threads : waiting[t] # p

\* C18: every process for which spawn() has returned is registered with
\* atexit, and once the control process has exited none of them is running.
C18_SpawnedAreTerminatedAtExit ==
    /\ \A p \in 1..Len(procs) : SpawnHasReturned(p) => p \in ToSet(atexit)
    /\ pc = "exited" =>
          \A p \in 1..Len(procs) : SpawnHasReturned(p) => ~Running(p)

\* C18 witness: the control process has exited after the restart calls had
\* returned, and the process a plugin held at that moment was terminated.
C18_Witness ==
    /\ pc = "exited"
    /\ calls # <<>>
    /\ \A k \in 1..Len(calls) : calls[k].pc = "done"
    /\ \E id \in Known : procs[plugins[id].process].status = "terminated"

\* C19: with children that run until they are terminated, the join loop of the
\* control thread does not run out and the control process does not exit
\* while the host has plugins.
C19_RestartsDoNotEndHost ==
    Known # {} => pc # "exited"

\* The running processes of a plugin.
LiveOf(id) == {p \in 1..Len(procs) : procs[p].identifier = id /\ Running(p)}

\* C20: a plugin has at most one running process, and a running process for
\* which spawn() has returned is the one its PluginState holds.
C20_OneLiveProcessPerPlugin ==
    \A id \in Known :
        /\ Cardinality(LiveOf(id)) <= 1
        /\ \A p \in LiveOf(id) : SpawnHasReturned(p) => plugins[id].process = p

====
